---- MODULE Spec2Model ----
(***************************************************************************)
(* svelte-tiny-i18n: the reactive translation store built by               *)
(* createI18nStore (src/src/svelte-tiny-i18n.ts).                          *)
(*                                                                         *)
(* Strings are sequences of one-character strings, so that splitting a     *)
(* language tag and scanning a template for placeholders are computed.     *)
(* The JavaScript values null and undefined are the one-element tuples     *)
(* Null and Undefined, which are not strings of the model (their element   *)
(* is longer than one character).                                          *)
(***************************************************************************)
EXTENDS Integers, Sequences, FiniteSets, TLC

VARIABLES
    translations,      \* the closure's Map<locale, Map<key, string>>
    locale,            \* value of the writable store `locale`
    _t,                \* value of the writable store `_t`: a reference to a sub-table, or Undefined
    tValue,            \* value of the derived store `t` while it has subscribers: the $_t its function closes over
    browser,           \* typeof window !== 'undefined'
    devLogs,           \* config.devLogs
    env,               \* history: what getInitLocale found at construction, where it is recorded
    localStorage,      \* localStorage[localStorageKey], Null when there is no item
    localeSubscribed,  \* an outside subscriber is attached to `locale`
    tSubscribed,       \* an outside subscriber is attached to `t`
    onLocale,          \* what the outside subscriber of `locale` does when it is called
    held,              \* the translator a caller took from `t` and kept: <<>>, or <<the $_t it closes over>>
    lastOp,            \* the last public operation: its name, argument and what it delivered
    lastWritten,       \* history: last value written for each (locale, key) by the inputs so far
    lastValid          \* history: last value of `locale` that was a supported locale

vars == <<translations, locale, _t, tValue, browser, devLogs, env, localStorage,
          localeSubscribed, tSubscribed, onLocale, held, lastOp, lastWritten, lastValid>>

----------------------------------------------------------------------------
(* JavaScript values *)

Undefined == <<"undefined">>
Null == <<"null">>
TypeError == <<"TypeError">>
EmptyString == <<>>

Truthy(v) == v # Undefined /\ v # Null /\ v # EmptyString

Range(s) == {s[i] : i \in DOMAIN s}

\* Array.prototype.includes
Includes(arr, v) == \E i \in DOMAIN arr : arr[i] = v

\* An empty Map, and an object without own properties
EmptyMap == [k \in {} |-> Undefined]

MapHas(m, k) == k \in DOMAIN m

MapGet(m, k) == IF k \in DOMAIN m THEN m[k] ELSE Undefined

MapSet(m, k, v) == [x \in DOMAIN m \cup {k} |-> IF x = k THEN v ELSE m[x]]

----------------------------------------------------------------------------
(* The configuration of the store under verification *)

En == <<"e", "n">>
Es == <<"e", "s">>
Fr == <<"f", "r">>

supportedLocales == <<En, Es>>

\* every code that is written to the locale cell or named in translation input
AllLocales == {En, Es, Fr}

K1 == <<"k">>
K2 == <<"j">>
Keys == {K1, K2}

VA == <<"A">>
VB == <<"B", "{", "n", "}">>
Values == {VA, VB}

\* Partial translation entries (PartialTranslationEntryMap): an object from
\* keys to objects from locale codes to strings.
Obj1(k, v) == [x \in {k} |-> v]
Obj2(k1, v1, k2, v2) == [x \in {k1, k2} |-> IF x = k1 THEN v1 ELSE v2]

Entries ==
    { EmptyMap,
      Obj1(K1, EmptyMap),
      Obj1(K1, Obj1(En, VA)),
      Obj1(K1, Obj2(En, VB, Fr, VA)),
      Obj2(K1, Obj1(Es, VA), K2, Obj2(En, VA, Es, VB)) }

\* longest array of entries handed to createI18nStore or extendTranslations
MaxEntries == 2

EntryArrays == UNION {[1..n -> Entries] : n \in 0..MaxEntries}

----------------------------------------------------------------------------
(* getInitLocale *)

\* lang.split('-')[0]
FirstDash(lang) ==
    IF \E i \in DOMAIN lang : lang[i] = "-"
    THEN CHOOSE i \in DOMAIN lang :
            lang[i] = "-" /\ \A j \in 1..(i - 1) : lang[j] # "-"
    ELSE Len(lang) + 1

baseLang(lang) == SubSeq(lang, 1, FirstDash(lang) - 1)

\* preferredLangs that puts navigator.language behind navigator.languages
preferredLangs_both(languages, language) ==
    (IF languages # Undefined THEN languages ELSE <<>>)
    \o (IF Truthy(language) THEN <<language>> ELSE <<>>)

\* preferredLangs that takes an empty navigator.languages for a missing one
preferredLangs_emptyFallsBack(languages, language) ==
    IF languages # Undefined /\ languages # <<>> THEN languages
    ELSE IF Truthy(language) THEN <<language>>
    ELSE <<>>

preferredLangs(languages, language) ==
    IF languages # Undefined THEN languages
    ELSE IF Truthy(language) THEN <<language>>
    ELSE <<>>

RECURSIVE matchPreferred(_, _, _)
matchPreferred(langs, i, defaultLocale) ==
    IF i > Len(langs) THEN defaultLocale
    ELSE IF Includes(supportedLocales, langs[i]) THEN langs[i]
    ELSE IF Includes(supportedLocales, baseLang(langs[i])) THEN baseLang(langs[i])
    ELSE matchPreferred(langs, i + 1, defaultLocale)

\* getInitLocale that tries only the full tag of every preference
getInitLocale_fullOnly(isBrowser, storedLang, languages, language, defaultLocale) ==
    LET langs == preferredLangs(languages, language)
        full == {i \in DOMAIN langs : Includes(supportedLocales, langs[i])}
    IN IF ~isBrowser THEN defaultLocale
       ELSE IF Truthy(storedLang) /\ Includes(supportedLocales, storedLang) THEN storedLang
       ELSE IF full # {} THEN langs[CHOOSE i \in full : \A j \in full : i <= j]
       ELSE defaultLocale

\* getInitLocale that returns whatever non-empty value localStorage holds
getInitLocale_storedUnchecked(isBrowser, storedLang, languages, language, defaultLocale) ==
    IF ~isBrowser THEN defaultLocale
    ELSE IF Truthy(storedLang) THEN storedLang
    ELSE matchPreferred(preferredLangs(languages, language), 1, defaultLocale)

\* getInitLocale without the test for a window
getInitLocale_noWindowTest(isBrowser, storedLang, languages, language, defaultLocale) ==
    IF Truthy(storedLang) /\ Includes(supportedLocales, storedLang) THEN storedLang
    ELSE matchPreferred(preferredLangs(languages, language), 1, defaultLocale)

\* a resolver that asks navigator first and localStorage only when no
\* preference matches
getInitLocale_preferencesFirst(isBrowser, storedLang, languages, language, defaultLocale) ==
    LET preferred == matchPreferred(preferredLangs(languages, language), 1, Undefined)
    IN IF ~isBrowser THEN defaultLocale
       ELSE IF preferred # Undefined THEN preferred
       ELSE IF Truthy(storedLang) /\ Includes(supportedLocales, storedLang) THEN storedLang
       ELSE defaultLocale

getInitLocale(isBrowser, storedLang, languages, language, defaultLocale) ==
    IF ~isBrowser THEN defaultLocale
    ELSE IF Truthy(storedLang) /\ Includes(supportedLocales, storedLang) THEN storedLang
    ELSE matchPreferred(preferredLangs(languages, language), 1, defaultLocale)

----------------------------------------------------------------------------
(* makeTranslation *)

\* setEntry without the result.has(lang) test: a sub-table appears for any
\* locale code the input names
setEntry_noHasCheck(result, entry) ==
    LET langs == DOMAIN result \cup UNION {DOMAIN entry[k] : k \in DOMAIN entry}
    IN [lang \in langs |->
        [key \in (IF lang \in DOMAIN result THEN DOMAIN result[lang] ELSE {})
                   \cup {k \in DOMAIN entry : lang \in DOMAIN entry[k]} |->
            IF key \in DOMAIN entry /\ lang \in DOMAIN entry[key]
            THEN entry[key][lang]
            ELSE result[lang][key]]]

\* setEntry that keeps the value already stored for a (key, lang) pair
setEntry_firstWins(result, entry) ==
    [lang \in DOMAIN result |->
        [key \in DOMAIN result[lang]
                   \cup {k \in DOMAIN entry : lang \in DOMAIN entry[k]} |->
            IF key \in DOMAIN result[lang]
            THEN result[lang][key]
            ELSE entry[key][lang]]]

\* the three nested forEach loops for one entry: no (key, lang) pair occurs
\* twice in one object, so the pairs are written pointwise
setEntry(result, entry) ==
    [lang \in DOMAIN result |->
        [key \in DOMAIN result[lang]
                   \cup {k \in DOMAIN entry : lang \in DOMAIN entry[k]} |->
            IF key \in DOMAIN entry /\ lang \in DOMAIN entry[key]
            THEN entry[key][lang]
            ELSE result[lang][key]]]

RECURSIVE forEachEntry(_, _, _)
forEachEntry(result, kv_pair, i) ==
    IF i > Len(kv_pair) THEN result
    ELSE forEachEntry(setEntry(result, kv_pair[i]), kv_pair, i + 1)

\* makeTranslation that creates a sub-table only for the locales the input
\* has data for
makeTranslation_lazy(kv_pair) ==
    LET full == forEachEntry([lang \in Range(supportedLocales) |-> EmptyMap], kv_pair, 1)
    IN [lang \in {l \in DOMAIN full : DOMAIN full[l] # {}} |-> full[lang]]

\* result.set(lang, new Map()) for every supported locale, then the entries
makeTranslation(kv_pair) ==
    forEachEntry([lang \in Range(supportedLocales) |-> EmptyMap], kv_pair, 1)

\* a merge that takes the sub-table of the input for every locale, also
\* where the input has no key for it
mergeTranslations_clear(existing, newTranslationMap) ==
    [lang \in DOMAIN existing |->
        IF lang \in DOMAIN newTranslationMap
        THEN newTranslationMap[lang]
        ELSE existing[lang]]

\* a merge that replaces the sub-table of every locale the input has data for
mergeTranslations_replace(existing, newTranslationMap) ==
    [lang \in DOMAIN existing |->
        IF lang \in DOMAIN newTranslationMap /\ DOMAIN newTranslationMap[lang] # {}
        THEN newTranslationMap[lang]
        ELSE existing[lang]]

\* the merge loop of extendTranslations: existingMap.set(key, value)
\* a merge in which a pair already in the table wins over the new one
mergeTranslations_keepExisting(existing, newTranslationMap) ==
    [lang \in DOMAIN existing |->
        IF lang \in DOMAIN newTranslationMap
        THEN [key \in DOMAIN existing[lang] \cup DOMAIN newTranslationMap[lang] |->
                IF key \in DOMAIN existing[lang]
                THEN existing[lang][key]
                ELSE newTranslationMap[lang][key]]
        ELSE existing[lang]]

mergeTranslations(existing, newTranslationMap) ==
    [lang \in DOMAIN existing |->
        IF lang \in DOMAIN newTranslationMap
        THEN [key \in DOMAIN existing[lang] \cup DOMAIN newTranslationMap[lang] |->
                IF key \in DOMAIN newTranslationMap[lang]
                THEN newTranslationMap[lang][key]
                ELSE existing[lang][key]]
        ELSE existing[lang]]

----------------------------------------------------------------------------
(* The function held by the derived store t *)

\* A reference to the sub-table Map of a locale
MapOf(lang) == <<"Map">> \o lang
IsObject(v) == Len(v) > 0 /\ v[1] = "Map"
LangOf(ref) == Tail(ref)

\* replacement values: strings, or numbers written by their digits
Num(digits) == <<"number">> \o digits
IsNumber(v) == Len(v) > 0 /\ v[1] = "number"

\* the functions an object literal inherits from Object.prototype, and
\* Object.prototype itself, which is what obj.__proto__ gives
ObjectPrototypeFunctions ==
    { <<"c", "o", "n", "s", "t", "r", "u", "c", "t", "o", "r">>,
      <<"t", "o", "S", "t", "r", "i", "n", "g">>,
      <<"v", "a", "l", "u", "e", "O", "f">>,
      <<"h", "a", "s", "O", "w", "n", "P", "r", "o", "p", "e", "r", "t", "y">>,
      <<"i", "s", "P", "r", "o", "t", "o", "t", "y", "p", "e", "O", "f">>,
      <<"p", "r", "o", "p", "e", "r", "t", "y", "I", "s", "E", "n", "u", "m", "e", "r", "a", "b", "l", "e">>,
      <<"t", "o", "L", "o", "c", "a", "l", "e", "S", "t", "r", "i", "n", "g">> }
NativeFunction(name) == <<"function">> \o name
IsFunction(v) == Len(v) > 0 /\ v[1] = "function"
ProtoName == <<"_", "_", "p", "r", "o", "t", "o", "_", "_">>
ObjectPrototype == <<"Object.prototype">>

\* String(value)
String(v) ==
    IF IsNumber(v) THEN Tail(v)
    ELSE IF IsFunction(v)
         THEN <<"f", "u", "n", "c", "t", "i", "o", "n", " ">> \o Tail(v)
              \o <<"(", ")", " ", "{", " ", "[", "n", "a", "t", "i", "v", "e", " ", "c", "o", "d", "e", "]", " ", "}">>
    ELSE IF v = ObjectPrototype THEN <<"[", "o", "b", "j", "e", "c", "t", " ", "O", "b", "j", "e", "c", "t", "]">>
    ELSE v

\* replacements[key]: an own property, or one found on the prototype
PropGet(obj, name) ==
    IF name \in DOMAIN obj THEN obj[name]
    ELSE IF name \in ObjectPrototypeFunctions THEN NativeFunction(name)
    ELSE IF name = ProtoName THEN ObjectPrototype
    ELSE Undefined

\* index of the "}" that closes a {name} token opened at i, or 0 when the
\* text at i does not match /{([^{}]+)}/
TokenEnd(s, i) ==
    LET braces == {j \in (i + 1)..Len(s) : s[j] \in {"{", "}"}}
        n == CHOOSE j \in braces : \A j2 \in braces : j <= j2
    IN IF s[i] = "{" /\ braces # {} /\ s[n] = "}" /\ n > i + 1 THEN n ELSE 0

\* translation.replace(/{([^{}]+)}/g, callback)
RECURSIVE replace(_, _, _)
replace(s, i, replacements) ==
    IF i > Len(s) THEN <<>>
    ELSE LET n == TokenEnd(s, i)
             value == PropGet(replacements, SubSeq(s, i + 1, n - 1))
         IN IF n = 0 THEN <<s[i]>> \o replace(s, i + 1, replacements)
            ELSE (IF value # Undefined /\ value # Null
                  THEN String(value)
                  ELSE SubSeq(s, i, n))
                 \o replace(s, n + 1, replacements)

\* a translator that falls back to the first supported locale's text
t_fallbackLocale(tr, view, key, replacements) ==
    IF ~IsObject(view) THEN TypeError
    ELSE LET found == MapGet(tr[LangOf(view)], key)
             other == MapGet(tr[supportedLocales[1]], key)
             translation == IF found # Undefined THEN found
                            ELSE IF other # Undefined THEN other ELSE key
         IN IF Len(replacements) > 0
            THEN replace(translation, 1, replacements[1])
            ELSE translation

\* a translator that runs the replacement again over its own result
t_rescan(tr, view, key, replacements) ==
    IF ~IsObject(view) THEN TypeError
    ELSE LET found == MapGet(tr[LangOf(view)], key)
             translation == IF found = Undefined THEN key ELSE found
         IN IF Len(replacements) > 0
            THEN replace(replace(translation, 1, replacements[1]), 1, replacements[1])
            ELSE translation

\* t(key, replacements?) for the function computed from $_t = view over the
\* table tr; TypeError when $_t.get is called on undefined.  The optional
\* argument is the sequence of the arguments after key: <<>> or <<object>>.
\* a translator that reads the view the store holds when it is called, not
\* the one it was made with
t_currentView(tr, view, key, replacements) ==
    IF ~IsObject(_t) THEN TypeError
    ELSE LET found == MapGet(tr[LangOf(_t)], key)
             translation == IF found = Undefined THEN key ELSE found
         IN IF Len(replacements) > 0
            THEN replace(translation, 1, replacements[1])
            ELSE translation

t(tr, view, key, replacements) ==
    IF ~IsObject(view) THEN TypeError
    ELSE LET found == MapGet(tr[LangOf(view)], key)
             translation == IF found = Undefined THEN key ELSE found
         IN IF Len(replacements) > 0
            THEN replace(translation, 1, replacements[1])
            ELSE translation

N == <<"n">>
\* the replacements arguments the translator is called with
Replacements ==
    { <<>>, <<EmptyMap>>, <<Obj1(N, <<"x">>)>>, <<Obj1(N, Num(<<"0">>))>>,
      <<Obj1(N, Null)>>, <<Obj1(N, Undefined)>>, <<Obj1(<<"m">>, <<"{", "n", "}">>)>> }

\* the console.warn of t(key) for a key the view does not have
tLog(tr, view, key, logs) ==
    IF IsObject(view) /\ MapGet(tr[LangOf(view)], key) = Undefined /\ logs
    THEN <<[msg |-> "Translation for key not found. Using key as fallback.",
            lang |-> key, count |-> 0]>>
    ELSE <<>>

----------------------------------------------------------------------------
(* svelte/store: writable, derived and the shared subscriber queue.        *)
(* A run of one public operation is computed on a record m:                *)
(*   locale, view, tval  the values of the stores locale, _t and t         *)
(*   storage             the localStorage item                             *)
(*   q                   the subscriber queue shared by all stores         *)
(*   ln, tn, si          what the run delivered to the outside subscriber  *)
(*                       of locale, to the outside subscriber of t, and    *)
(*                       the values passed to localStorage.setItem         *)
(* and a context c: browser, and which outside subscribers are attached.   *)

\* a store that takes every set for a change
safe_not_equal_always(a, b) == TRUE

safe_not_equal(a, b) == a # b \/ IsObject(a)

Push(m, sub, val) == [m EXCEPT !.q = Append(@, [sub |-> sub, val |-> val])]

\* translations.get(lang): a reference to the sub-table, or undefined
getSubTable(tr, lang) == IF MapHas(tr, lang) THEN MapOf(lang) ELSE Undefined

\* _t.set(v): its only subscriber is the derived store t, attached while t
\* itself has a subscriber
viewSet(m, v, c) ==
    IF safe_not_equal(m.view, v)
    THEN LET m1 == [m EXCEPT !.view = v]
         IN IF c.tSubscribed THEN Push(m1, "derived", v) ELSE m1
    ELSE m

\* a locale store that notifies on every set, changed or not
localeSet_alwaysNotifies(m, v, c) ==
    LET m1 == Push([m EXCEPT !.locale = v], "internal", v)
    IN IF c.localeSubscribed THEN Push(m1, "localeSubscriber", v) ELSE m1

\* locale.set(v): subscribers in subscription order, the store's own
\* callback first
localeSet(m, v, c) ==
    IF safe_not_equal(m.locale, v)
    THEN LET m1 == Push([m EXCEPT !.locale = v], "internal", v)
         IN IF c.localeSubscribed THEN Push(m1, "localeSubscriber", v) ELSE m1
    ELSE m

\* a callback that persists but never replaces the view
localeCallback_noViewUpdate(m, lang, tr, c) ==
    IF c.browser
    THEN [m EXCEPT !.storage = lang, !.si = Append(@, lang)]
    ELSE m

\* a callback that persists only the locales that have a sub-table
localeCallback_persistSupported(m, lang, tr, c) ==
    IF MapHas(tr, lang)
    THEN LET m1 == viewSet(m, getSubTable(tr, lang), c)
         IN IF c.browser
            THEN [m1 EXCEPT !.storage = lang, !.si = Append(@, lang)]
            ELSE m1
    ELSE m

\* a callback that persists without asking for a window
localeCallback_alwaysPersist(m, lang, tr, c) ==
    LET m1 == IF MapHas(tr, lang) THEN viewSet(m, getSubTable(tr, lang), c) ELSE m
    IN [m1 EXCEPT !.storage = lang, !.si = Append(@, lang)]

\* a callback that sets the view to translations.get(lang) whatever lang is
localeCallback_clearView(m, lang, tr, c) ==
    LET m1 == viewSet(m, getSubTable(tr, lang), c)
    IN IF c.browser
       THEN [m1 EXCEPT !.storage = lang, !.si = Append(@, lang)]
       ELSE m1

\* the callback of locale.subscribe in createI18nStore
localeCallback(m, lang, tr, c) ==
    LET m1 == IF MapHas(tr, lang) THEN viewSet(m, getSubTable(tr, lang), c) ELSE m
    IN IF c.browser
       THEN [m1 EXCEPT !.storage = lang, !.si = Append(@, lang)]
       ELSE m1

\* a derived store that recomputes without telling its subscriber
derivedCallback_noNotify(m, v, c) == [m EXCEPT !.tval = v]

\* derived(_t, fn): recompute the function and set it on t; a function never
\* equals the previous one, so the subscriber of t is always queued
derivedCallback(m, v, c) ==
    LET m1 == [m EXCEPT !.tval = v]
    IN IF c.tSubscribed THEN Push(m1, "tSubscriber", v) ELSE m1

RECURSIVE runQueue(_, _, _, _)

\* a set made while the queue is being run changes the value and calls nobody
settle_dropsNested(before, after, tr, c) ==
    IF before.q = <<>> THEN runQueue(after, 1, tr, c) ELSE [after EXCEPT !.q = before.q]

\* the end of writable.set: the queued subscribers run now if the queue was
\* empty before (run_queue), else when the loop that is running reaches them
settle(before, after, tr, c) ==
    IF before.q = <<>> THEN runQueue(after, 1, tr, c) ELSE after

\* setLocale that writes every non-empty lang
setLocaleRun_noValidation(m, lang, tr, c) ==
    IF ~Truthy(lang) THEN m
    ELSE runQueue(localeSet(m, lang, c), 1, tr, c)

\* setLocale that replaces the value without running the subscribers
setLocaleRun_noRun(m, lang, tr, c) ==
    IF ~Truthy(lang) THEN m
    ELSE IF Includes(supportedLocales, lang)
         THEN [m EXCEPT !.locale = lang]
         ELSE m

\* setLocale that puts back what localStorage held
setLocaleRun_skipPersist(m, lang, tr, c) ==
    IF ~Truthy(lang) THEN m
    ELSE IF Includes(supportedLocales, lang)
         THEN [runQueue(localeSet(m, lang, c), 1, tr, c) EXCEPT
                    !.storage = m.storage, !.si = <<>>]
         ELSE m

\* setLocale whose test of supportedLocales sits inside if (devLogs)
setLocaleRun_validatesWhenLogging(m, lang, tr, c) ==
    IF ~Truthy(lang) THEN m
    ELSE IF Includes(supportedLocales, lang) \/ ~c.devLogs
         THEN settle(m, localeSet(m, lang, c), tr, c)
         ELSE m

\* the run of setLocale(lang)
setLocaleRun(m, lang, tr, c) ==
    IF ~Truthy(lang) THEN m
    ELSE IF Includes(supportedLocales, lang)
         THEN settle(m, localeSet(m, lang, c), tr, c)
         ELSE m

\* an outside subscriber of locale that does nothing but take the value
Passive == [call |-> "none", arg |-> Undefined]

\* a subscriber that is called but is not handed the value
localeSubscriber_dropsValue(m, value, tr, c) ==
    IF c.onLocale = Passive THEN m
    ELSE setLocaleRun(m, c.onLocale.arg, tr, c)

\* get(t) in the run m: the value the derived store holds while it has
\* subscribers, else the value it computes from _t on the spot
getT(m, c) == IF c.tSubscribed THEN m.tval ELSE m.view

\* the callback of the outside subscriber of locale: it takes the value and,
\* unless it is passive, either calls setLocale and then looks at the
\* stores, or looks at them at once
localeSubscriber(m, value, tr, c) ==
    LET m1 == [m EXCEPT !.ln = Append(@, value)]
        m2 == IF c.onLocale.call = "setLocale"
              THEN setLocaleRun(m1, c.onLocale.arg, tr, c)
              ELSE m1
    IN IF c.onLocale = Passive THEN m1
       ELSE [m2 EXCEPT !.seen = Append(@, [call |-> c.onLocale.call, value |-> value,
                                            arg |-> c.onLocale.arg, before |-> m1.locale,
                                            locale |-> m2.locale, view |-> m2.view,
                                            storage |-> m2.storage, t |-> getT(m2, c)])]

deliver(m, item, tr, c) ==
    CASE item.sub = "internal" -> localeCallback(m, item.val, tr, c)
      [] item.sub = "localeSubscriber" -> localeSubscriber(m, item.val, tr, c)
      [] item.sub = "derived" -> derivedCallback(m, item.val, c)
      [] item.sub = "tSubscriber" -> [m EXCEPT !.tn = Append(@, item.val)]

\* the loop over subscriber_queue of the outermost set
runQueue(m, i, tr, c) ==
    IF i > Len(m.q) THEN [m EXCEPT !.q = <<>>]
    ELSE runQueue(deliver(m, m.q[i], tr, c), i + 1, tr, c)

----------------------------------------------------------------------------
(* History of the inputs, kept to state the properties *)

Occurrences(input, key, lang) ==
    {i \in DOMAIN input : key \in DOMAIN input[i] /\ lang \in DOMAIN input[i][key]}

\* the value of the last occurrence of (key, lang) in input, or Undefined
LastOccurrence(input, key, lang) ==
    LET occ == Occurrences(input, key, lang)
    IN IF occ = {} THEN Undefined
       ELSE input[CHOOSE i \in occ : \A j \in occ : j <= i][key][lang]

Supplied(input) ==
    [lang \in Range(supportedLocales) |-> [key \in Keys |-> LastOccurrence(input, key, lang)]]

Dropped(input) ==
    {lang \in AllLocales \ Range(supportedLocales) :
        \E key \in Keys : Occurrences(input, key, lang) # {}}

NoneSupplied == Supplied(<<>>)

Overwrite(written, supplied) ==
    [lang \in DOMAIN written |-> [key \in DOMAIN written[lang] |->
        IF supplied[lang][key] # Undefined THEN supplied[lang][key] ELSE written[lang][key]]]

\* a console message; lang and count are <<>> and 0 where the text has none
Message(msg, lang, count) == [msg |-> msg, lang |-> lang, count |-> count]

RECURSIVE countLines(_, _)
\* newTranslationMap.forEach: a line for every locale whose valueMap.size > 0
countLines(newTranslationMap, i) ==
    IF i > Len(supportedLocales) THEN <<>>
    ELSE LET lang == supportedLocales[i]
             count == Cardinality(DOMAIN newTranslationMap[lang])
         IN (IF count > 0
             THEN <<Message("keys added/updated for lang", lang, count)>>
             ELSE <<>>)
            \o countLines(newTranslationMap, i + 1)

\* what extendTranslations writes to the console
extendLog(newTranslationMap, logs) ==
    IF ~logs THEN <<>>
    ELSE LET lines == countLines(newTranslationMap, 1)
         IN <<Message("group: Extended translations...", <<>>, 0)>>
            \o (IF lines = <<>>
                THEN <<Message("No new translations were added.", <<>>, 0)>>
                ELSE lines)
            \o <<Message("groupEnd", <<>>, 0)>>

\* what setLocale(lang) writes to the console
setLocaleLog(lang, logs) ==
    IF ~Truthy(lang)
    THEN IF logs /\ lang = EmptyString
         THEN <<Message("is not a lang", lang, 0)>>
         ELSE <<>>
    ELSE IF Includes(supportedLocales, lang) THEN <<>>
         ELSE IF logs
              THEN <<Message("is not in supportedLocales", lang, 0)>>
              ELSE <<>>

\* ln, tn, si, seen as delivered by the run m; gi: the values
\* localStorage.getItem returned; log: the console messages; rest: the
\* arguments after the first; result: what the call returned
Op(name, arg, m, input, gi, log) ==
    [op |-> name, arg |-> arg, ln |-> m.ln, tn |-> m.tn, si |-> m.si,
     seen |-> m.seen, gi |-> gi, log |-> log, rest |-> <<>>, result |-> Undefined,
     supplied |-> Supplied(input), dropped |-> Dropped(input)]

----------------------------------------------------------------------------
(* createI18nStore *)

\* what the environment may hold when the store is created
StoredLangs == {Null, Es}
Navigators ==
    { [languages |-> Undefined, language |-> Undefined],
      [languages |-> <<Fr, <<"e", "s", "-", "M", "X">>, En>>, language |-> En],
      [languages |-> Undefined, language |-> <<"e", "n", "-", "U", "S">>] }

Machine(loc, view, tval, storage) ==
    [locale |-> loc, view |-> view, tval |-> tval, storage |-> storage,
     q |-> <<>>, ln |-> <<>>, tn |-> <<>>, si |-> <<>>, seen |-> <<>>]

Context(isBrowser, ls, ts) ==
    [browser |-> isBrowser, localeSubscribed |-> ls, tSubscribed |-> ts,
     devLogs |-> TRUE, onLocale |-> Passive]

\* the values localStorage.getItem hands to getInitLocale, which asks only
\* after it has found a window
getItemCalls(isBrowser, storedLang) ==
    IF ~isBrowser THEN <<>> ELSE <<storedLang>>

\* the store right after createI18nStore(config) has returned
created(isBrowser, logs, storedLang, navigator, defaultLocale, initialTranslations) ==
    LET tr == makeTranslation(initialTranslations)
        initialLanguage == getInitLocale(isBrowser, storedLang,
                               navigator.languages, navigator.language, defaultLocale)
        c == [Context(isBrowser, FALSE, FALSE) EXCEPT !.devLogs = logs]
        \* locale.subscribe(callback) calls the callback with the current value
        m == localeCallback(
                Machine(initialLanguage, getSubTable(tr, initialLanguage),
                        Undefined, storedLang),
                initialLanguage, tr, c)
    IN [translations |-> tr, m |-> m,
        lastOp |-> Op("createI18nStore", Undefined, m, initialTranslations,
                      getItemCalls(isBrowser, storedLang), <<>>),
        lastWritten |-> Supplied(initialTranslations),
        lastValid |-> initialLanguage]

\* what is not recorded of the environment
Unrecorded == <<"unrecorded">>

Init ==
    \E isBrowser \in BOOLEAN, logs \in BOOLEAN, storedLang \in StoredLangs,
       navigator \in Navigators,
       defaultLocale \in Range(supportedLocales), initialTranslations \in EntryArrays :
        LET s == created(isBrowser, logs, storedLang, navigator, defaultLocale,
                         initialTranslations)
        IN /\ translations = s.translations
           /\ locale = s.m.locale
           /\ _t = s.m.view
           /\ tValue = s.m.tval
           /\ browser = isBrowser
           /\ devLogs = logs
           /\ env = Unrecorded
           /\ localStorage = s.m.storage
           /\ localeSubscribed = FALSE
           /\ tSubscribed = FALSE
           /\ onLocale = Passive
           /\ held = <<>>
           /\ lastOp = s.lastOp
           /\ lastWritten = s.lastWritten
           /\ lastValid = s.lastValid

----------------------------------------------------------------------------
(* Public operations *)

Now == Machine(locale, _t, tValue, localStorage)
Ctx == [Context(browser, localeSubscribed, tSubscribed) EXCEPT
            !.devLogs = devLogs, !.onLocale = onLocale]

Commit(m) ==
    /\ locale' = m.locale
    /\ _t' = m.view
    /\ tValue' = m.tval
    /\ localStorage' = m.storage

LangArgs == AllLocales \cup {Null, Undefined, EmptyString}

\* setLocale that first rebuilds the table, with a sub-table per locale and
\* no pair in it
SetLocale_rebuildsTable(lang) ==
    LET tr == makeTranslation(<<>>)
        m == setLocaleRun(Now, lang, tr, Ctx)
    IN /\ translations' = tr
       /\ Commit(m)
       /\ lastOp' = Op("setLocale", lang, m, <<>>, <<>>, setLocaleLog(lang, devLogs))
       /\ lastValid' = IF m.locale \in Range(supportedLocales) THEN m.locale ELSE lastValid
       /\ UNCHANGED <<browser, onLocale, held, devLogs, env, localeSubscribed, tSubscribed,
                      lastWritten>>

SetLocale(lang) ==
    LET m == setLocaleRun(Now, lang, translations, Ctx)
    IN /\ Commit(m)
       /\ lastOp' = Op("setLocale", lang, m, <<>>, <<>>, setLocaleLog(lang, devLogs))
       /\ lastValid' = IF m.locale \in Range(supportedLocales) THEN m.locale ELSE lastValid
       /\ UNCHANGED <<translations, browser, onLocale, held, devLogs, env, localeSubscribed, tSubscribed, lastWritten>>

\* locale.set(lang) on the store itself, which is a writable
LocaleSet(lang) ==
    LET m == settle(Now, localeSet(Now, lang, Ctx), translations, Ctx)
    IN /\ Commit(m)
       /\ lastOp' = Op("locale.set", lang, m, <<>>, <<>>, <<>>)
       /\ lastValid' = IF m.locale \in Range(supportedLocales) THEN m.locale ELSE lastValid
       /\ UNCHANGED <<translations, browser, onLocale, held, devLogs, env, localeSubscribed, tSubscribed, lastWritten>>

\* the run of locale.update(lang => { _t.set(translations.get(lang)!); return lang; })
refreshRun(m, tr, c) ==
    LET m1 == runQueue(viewSet(m, getSubTable(tr, m.locale), c), 1, tr, c)
    IN runQueue(localeSet(m1, m1.locale, c), 1, tr, c)

ExtendTranslations(newTranslations) ==
    LET newTranslationMap == makeTranslation(newTranslations)
        tr == mergeTranslations(translations, newTranslationMap)
        m == refreshRun(Now, tr, Ctx)
    IN /\ translations' = tr
       /\ Commit(m)
       /\ lastOp' = Op("extendTranslations", Undefined, m, newTranslations, <<>>,
                    extendLog(newTranslationMap, devLogs))
       /\ lastWritten' = Overwrite(lastWritten, Supplied(newTranslations))
       /\ UNCHANGED <<browser, onLocale, held, devLogs, env, localeSubscribed, tSubscribed, lastValid>>

\* locale.subscribe(run) from outside: run(value) at once
SubscribeLocale ==
    /\ ~localeSubscribed
    /\ localeSubscribed' = TRUE
    /\ onLocale' = Passive
    /\ held' = held
    /\ lastOp' = Op("locale.subscribe", Undefined, [Now EXCEPT !.ln = <<locale>>], <<>>, <<>>, <<>>)
    /\ UNCHANGED <<translations, locale, _t, tValue, browser, devLogs, env, localStorage,
                   tSubscribed, lastWritten, lastValid>>

UnsubscribeLocale ==
    /\ localeSubscribed
    /\ localeSubscribed' = FALSE
    /\ onLocale' = Passive
    /\ held' = held
    /\ lastOp' = Op("locale.unsubscribe", Undefined, Now, <<>>, <<>>, <<>>)
    /\ UNCHANGED <<translations, locale, _t, tValue, browser, devLogs, env, localStorage,
                   tSubscribed, lastWritten, lastValid>>

\* t.subscribe(run) from outside: the first subscriber starts the derived
\* store, which subscribes to _t, computes its function and hands it to run
SubscribeT ==
    /\ ~tSubscribed
    /\ tSubscribed' = TRUE
    /\ tValue' = _t
    /\ lastOp' = Op("t.subscribe", Undefined, [Now EXCEPT !.tn = <<_t>>], <<>>, <<>>, <<>>)
    /\ UNCHANGED <<translations, locale, _t, browser, onLocale, held, devLogs, env, localStorage,
                   localeSubscribed, lastWritten, lastValid>>

\* the last subscriber of t leaves: the derived store unsubscribes from _t
UnsubscribeT ==
    /\ tSubscribed
    /\ tSubscribed' = FALSE
    /\ tValue' = Undefined
    /\ lastOp' = Op("t.unsubscribe", Undefined, Now, <<>>, <<>>, <<>>)
    /\ UNCHANGED <<translations, locale, _t, browser, onLocale, held, devLogs, env, localStorage,
                   localeSubscribed, lastWritten, lastValid>>

Next ==
    \/ \E lang \in LangArgs : SetLocale(lang)
    \/ \E lang \in AllLocales : LocaleSet(lang)
    \/ \E newTranslations \in EntryArrays : ExtendTranslations(newTranslations)
    \/ SubscribeLocale
    \/ UnsubscribeLocale
    \/ SubscribeT
    \/ UnsubscribeT

Spec == Init /\ [][Next]_vars

\* the store used only through setLocale and extendTranslations
NextValidated ==
    \/ \E lang \in LangArgs : SetLocale(lang)
    \/ \E newTranslations \in EntryArrays : ExtendTranslations(newTranslations)
    \/ SubscribeLocale
    \/ UnsubscribeLocale
    \/ SubscribeT
    \/ UnsubscribeT

SpecValidated == Init /\ [][NextValidated]_vars

----------------------------------------------------------------------------
(* The store created again and again over one localStorage *)

EsMX == <<"e", "s", "-", "M", "X">>

\* the language tags a navigator may report
PreferenceTags == {En, EsMX, Fr}

\* longest navigator.languages
MaxTags == 2

LanguageLists == {Undefined} \cup UNION {[1..n -> PreferenceTags] : n \in 0..MaxTags}
SingleLanguages == {Undefined} \cup PreferenceTags
PersistedValues == {Null, EmptyString, Es, Fr}

\* the defaultLocale of a config: the type of I18nConfig allows the supported
\* locales, a caller that is not type-checked can pass any code
ConfigDefaults == AllLocales

\* the initialTranslations of the store that is created again
sampleTranslations == <<Obj2(K1, Obj1(Es, VA), K2, Obj2(En, VA, Es, VB))>>

Environment(storedLang, languages, language, defaultLocale) ==
    [storedLang |-> storedLang, languages |-> languages, language |-> language,
     defaultLocale |-> defaultLocale]

InitResolve ==
    \E isBrowser \in BOOLEAN, storedLang \in PersistedValues,
       languages \in LanguageLists, language \in SingleLanguages,
       defaultLocale \in ConfigDefaults :
        LET s == created(isBrowser, TRUE, storedLang,
                         [languages |-> languages, language |-> language],
                         defaultLocale, sampleTranslations)
        IN /\ translations = s.translations
           /\ locale = s.m.locale
           /\ _t = s.m.view
           /\ tValue = s.m.tval
           /\ browser = isBrowser
           /\ devLogs = TRUE
           /\ env = Environment(storedLang, languages, language, defaultLocale)
           /\ localStorage = s.m.storage
           /\ localeSubscribed = FALSE
           /\ tSubscribed = FALSE
           /\ onLocale = Passive
           /\ held = <<>>
           /\ lastOp = s.lastOp
           /\ lastWritten = s.lastWritten
           /\ lastValid = s.lastValid

\* the page is loaded again: createI18nStore with the same config and
\* navigator, over what localStorage holds by now
Recreate ==
    LET s == created(browser, devLogs, localStorage,
                     [languages |-> env.languages, language |-> env.language],
                     env.defaultLocale, sampleTranslations)
    IN /\ translations' = s.translations
       /\ Commit(s.m)
       /\ env' = [env EXCEPT !.storedLang = localStorage]
       /\ localeSubscribed' = FALSE
       /\ tSubscribed' = FALSE
       /\ onLocale' = Passive
       /\ held' = <<>>
       /\ lastOp' = s.lastOp
       /\ lastWritten' = s.lastWritten
       /\ lastValid' = s.lastValid
       /\ UNCHANGED <<browser, devLogs>>

NextResolve ==
    \/ Recreate
    \/ \E lang \in AllLocales : LocaleSet(lang)

SpecResolve == InitResolve /\ [][NextResolve]_vars

\* the page is used, with setLocale and with raw writes, and loaded again
NextRoundTrip ==
    \/ Recreate
    \/ \E lang \in LangArgs : SetLocale(lang)
    \/ \E lang \in AllLocales : LocaleSet(lang)

SpecRoundTrip == InitResolve /\ [][NextRoundTrip]_vars

\* the same, with the store used only through setLocale
NextResolveValidated ==
    \/ Recreate
    \/ \E lang \in LangArgs : SetLocale(lang)

SpecResolveValidated == InitResolve /\ [][NextResolveValidated]_vars

\* get(t): the function a reader of the store t obtains now, as the $_t it
\* closes over
GetT == IF tSubscribed THEN tValue ELSE _t

TypeOK ==
    /\ DOMAIN translations = Range(supportedLocales)
    /\ locale \in AllLocales
    /\ _t \in {MapOf(l) : l \in AllLocales} \cup {Undefined}

----------------------------------------------------------------------------
(* The translator called on a store that holds one text *)

\* longest text built from the letters of a token
MaxText == 4

M == <<"m">>
Texts ==
    UNION {[1..n -> {"{", "}", "n"}] : n \in 0..MaxText}
    \cup { VB, <<"{", "m", "}", "{", "n", "}">>, <<"{", "n", "}", " ", "{", "n", "}">>, <<"{", "v", "a", "l", "u", "e", "O", "f", "}">>,
           <<"a", "{", "t", "o", "S", "t", "r", "i", "n", "g", "}">> }

\* the keys t is called with: the stored one, and two that are not stored
CallKeys == {K1, K2, <<"{", "n", "}">>}

\* the arguments after key
CallReplacements ==
    Replacements
    \cup { <<Obj2(N, <<"{", "m", "}">>, M, <<"x">>)>>,
           <<Obj2(N, <<"x">>, M, <<"{", "n", "}">>)>> }

InitTranslate ==
    \E logs \in BOOLEAN, text \in Texts :
        LET s == created(TRUE, logs, Null, [languages |-> Undefined, language |-> Undefined],
                         En, <<Obj1(K1, Obj1(En, text))>>)
        IN /\ translations = s.translations
           /\ locale = s.m.locale
           /\ _t = s.m.view
           /\ tValue = s.m.tval
           /\ browser = TRUE
           /\ devLogs = logs
           /\ env = Unrecorded
           /\ localStorage = s.m.storage
           /\ localeSubscribed = FALSE
           /\ tSubscribed = FALSE
           /\ onLocale = Passive
           /\ held = <<>>
           /\ lastOp = s.lastOp
           /\ lastWritten = s.lastWritten
           /\ lastValid = s.lastValid

\* the function in t, called in the closure c of createI18nStore: what it
\* returns and what it writes to the console
translate(c, tr, view, key, replacements) ==
    [result |-> t(tr, view, key, replacements),
     log |-> tLog(tr, view, key, c.devLogs)]

\* get(t)(key, ...replacements), or $t(key, ...replacements) in a component
CallT(key, replacements) ==
    /\ LET call == translate(Ctx, translations, GetT, key, replacements)
       IN lastOp' = [Op("t", key, Now, <<>>, <<>>, call.log)
                        EXCEPT !.rest = replacements, !.result = call.result]
    /\ UNCHANGED <<translations, locale, _t, tValue, browser, devLogs, env, localStorage,
                   localeSubscribed, tSubscribed, onLocale, held, lastWritten, lastValid>>

NextTranslate == \E key \in CallKeys, replacements \in CallReplacements : CallT(key, replacements)

SpecTranslate == InitTranslate /\ [][NextTranslate]_vars

----------------------------------------------------------------------------
(* The store with a subscriber of locale that calls back into it *)

\* what the outside subscriber of locale may do with a value
Reactions ==
    { Passive, [call |-> "get(t)", arg |-> Undefined],
      [call |-> "setLocale", arg |-> En], [call |-> "setLocale", arg |-> Es] }

NoNavigator == [languages |-> Undefined, language |-> Undefined]

\* the arrays handed to extendTranslations: no entry, or one
CallArrays == {<<>>} \cup {<<entry>> : entry \in Entries}

\* what t is called with
SomeKeys == {K1, K2}
SomeReplacements == { <<>>, <<Obj1(N, <<"x">>)>> }

InitCalls ==
    \E isBrowser \in BOOLEAN, logs \in BOOLEAN :
        LET s == created(isBrowser, logs, Null, NoNavigator, En, sampleTranslations)
        IN /\ translations = s.translations
           /\ locale = s.m.locale
           /\ _t = s.m.view
           /\ tValue = s.m.tval
           /\ browser = isBrowser
           /\ devLogs = logs
           /\ env = Unrecorded
           /\ localStorage = s.m.storage
           /\ localeSubscribed = FALSE
           /\ tSubscribed = FALSE
           /\ onLocale = Passive
           /\ held = <<>>
           /\ lastOp = s.lastOp
           /\ lastWritten = s.lastWritten
           /\ lastValid = s.lastValid

\* the context once the subscriber with this reaction is attached
Attached(c, reaction) ==
    [c EXCEPT !.localeSubscribed = TRUE, !.onLocale = reaction]

\* locale.subscribe(run): the subscriber is added, then run(value) is called
SubscribeLocaleWith(reaction) ==
    LET m == localeSubscriber(Now, locale, translations, Attached(Ctx, reaction))
    IN /\ ~localeSubscribed
       /\ localeSubscribed' = TRUE
       /\ onLocale' = reaction
       /\ held' = held
       /\ Commit(m)
       /\ lastOp' = Op("locale.subscribe", reaction.arg, m, <<>>, <<>>, <<>>)
       /\ lastValid' = IF m.locale \in Range(supportedLocales) THEN m.locale ELSE lastValid
       /\ UNCHANGED <<translations, browser, devLogs, env, tSubscribed, lastWritten>>

\* const translate = get(t): the caller keeps the function
Obtain ==
    /\ held' = <<GetT>>
    /\ lastOp' = Op("get(t)", Undefined, Now, <<>>, <<>>, <<>>)
    /\ UNCHANGED <<translations, locale, _t, tValue, browser, devLogs, env, localStorage,
                   localeSubscribed, tSubscribed, onLocale, lastWritten, lastValid>>

\* translate(key), with the function kept earlier
CallHeld(key) ==
    /\ held # <<>>
    /\ LET call == translate(Ctx, translations, held[1], key, <<>>)
       IN lastOp' = [Op("translate", key, Now, <<>>, <<>>, call.log)
                        EXCEPT !.result = call.result]
    /\ UNCHANGED <<translations, locale, _t, tValue, browser, devLogs, env, localStorage,
                   localeSubscribed, tSubscribed, onLocale, held, lastWritten, lastValid>>

NextCalls ==
    \/ \E lang \in LangArgs : SetLocale(lang)
    \/ \E lang \in AllLocales : LocaleSet(lang)
    \/ \E newTranslations \in CallArrays : ExtendTranslations(newTranslations)
    \/ \E reaction \in Reactions : SubscribeLocaleWith(reaction)
    \/ UnsubscribeLocale
    \/ SubscribeT
    \/ UnsubscribeT
    \/ \E key \in SomeKeys, replacements \in SomeReplacements : CallT(key, replacements)

SpecCalls == InitCalls /\ [][NextCalls]_vars

\* the store used by a caller that keeps a translator it took from t
NextHeld ==
    \/ \E lang \in LangArgs : SetLocale(lang)
    \/ \E lang \in AllLocales : LocaleSet(lang)
    \/ \E newTranslations \in CallArrays : ExtendTranslations(newTranslations)
    \/ SubscribeT
    \/ UnsubscribeT
    \/ Obtain
    \/ \E key \in SomeKeys : CallHeld(key)

SpecHeld == InitCalls /\ [][NextHeld]_vars

----------------------------------------------------------------------------
(* The table as built from everything it was given: lastOp.rest keeps the   *)
(* entries of initialTranslations and of every extension, in order, and    *)
(* lastOp.arg the array of the last call                                   *)

\* the most entries the table is given in all
MaxHistory == 3

InitBuild ==
    \E initialTranslations \in EntryArrays :
        LET s == created(TRUE, TRUE, Null, NoNavigator, En, initialTranslations)
        IN /\ translations = s.translations
           /\ locale = s.m.locale
           /\ _t = s.m.view
           /\ tValue = s.m.tval
           /\ browser = TRUE
           /\ devLogs = TRUE
           /\ env = Unrecorded
           /\ localStorage = s.m.storage
           /\ localeSubscribed = FALSE
           /\ tSubscribed = FALSE
           /\ onLocale = Passive
           /\ held = <<>>
           /\ lastOp = [s.lastOp EXCEPT !.rest = initialTranslations]
           /\ lastWritten = s.lastWritten
           /\ lastValid = s.lastValid

\* extendTranslations(newTranslations), with the entries kept
ExtendRecorded(newTranslations) ==
    LET newTranslationMap == makeTranslation(newTranslations)
        tr == mergeTranslations(translations, newTranslationMap)
        m == refreshRun(Now, tr, Ctx)
    IN /\ Len(lastOp.rest) + Len(newTranslations) <= MaxHistory
       /\ translations' = tr
       /\ Commit(m)
       /\ lastOp' = [Op("extendTranslations", newTranslations, m, newTranslations, <<>>,
                        extendLog(newTranslationMap, devLogs))
                        EXCEPT !.rest = lastOp.rest \o newTranslations]
       /\ lastWritten' = Overwrite(lastWritten, Supplied(newTranslations))
       /\ UNCHANGED <<browser, onLocale, held, devLogs, env, localeSubscribed, tSubscribed, lastValid>>

NextBuild == \E newTranslations \in EntryArrays : ExtendRecorded(newTranslations)

SpecBuild == InitBuild /\ [][NextBuild]_vars

----------------------------------------------------------------------------
(* Properties *)

Supported == Range(supportedLocales)

\* the string a caller gets now from get(t)(key, ...replacements)
Translated(key, replacements) == t(translations, GetT, key, replacements)

\* C1: when the locale is changed only through setLocale, the view the
\* translator uses is the sub-table of the active locale: t(k) returns
\* translations[locale][k] for every stored pair.
C1_ViewIsActiveSubTable ==
    /\ _t = MapOf(locale)
    /\ GetT = MapOf(locale)
    /\ \A k \in Keys :
        MapHas(translations[locale], k) => Translated(k, <<>>) = translations[locale][k]

C1_Witness ==
    /\ lastOp.op = "extendTranslations"
    /\ locale = Es
    /\ lastValid = Es
    /\ tSubscribed
    /\ lastOp.supplied[Es][K2] = VB
    /\ Translated(K2, <<>>) = VB

\* C2: t(key, replacements) returns a string, never an exception, in every
\* reachable state, for every key and every replacements argument.
C2_NeverThrows ==
    \A k \in Keys, r \in Replacements : Translated(k, r) # TypeError

\* C3: after setLocale(lang) with lang supported, the active locale is lang
\* and t(k) = translations[lang][k] for every key stored for lang.
C3_SetLocaleSwitches ==
    (lastOp.op = "setLocale" /\ lastOp.arg \in Supported) =>
        /\ locale = lastOp.arg
        /\ \A k \in Keys :
            MapHas(translations[lastOp.arg], k) =>
                Translated(k, <<>>) = translations[lastOp.arg][k]

C3_Witness ==
    /\ lastOp.op = "setLocale"
    /\ lastOp.arg = Es
    /\ lastOp.tn = <<MapOf(Es)>>
    /\ MapHas(translations[Es], K1)
    /\ Translated(K1, <<>>) = VA

\* C4: setLocale(lang) with lang null, undefined, empty or unsupported writes
\* nothing: locale, view, translator, persisted value and table are unchanged
\* and no subscriber is notified.
C4_RejectedSetLocaleIsNoOp ==
    [][(lastOp'.op = "setLocale" /\ lastOp'.arg \notin Supported) =>
          /\ UNCHANGED <<locale, _t, tValue, localStorage, translations>>
          /\ lastOp'.ln = <<>>
          /\ lastOp'.tn = <<>>
          /\ lastOp'.si = <<>>]_vars

C4_Witness ==
    /\ lastOp.op = "setLocale"
    /\ lastOp.arg = Fr
    /\ browser
    /\ localeSubscribed
    /\ tSubscribed
    /\ locale = Es

\* C5: a key without an entry in the active locale's sub-table translates to
\* the key itself when no replacements are given, also when other locales
\* have an entry for it.
C5_FallbackToKey ==
    \A k \in Keys :
        (locale \in Supported /\ ~MapHas(translations[locale], k)) =>
            Translated(k, <<>>) = k

C5_Witness ==
    /\ locale = Es
    /\ ~MapHas(translations[Es], K1)
    /\ MapHas(translations[En], K1)
    /\ Translated(K1, <<>>) = K1

\* C6: every extendTranslations call notifies the subscriber of t with a
\* recomputed translator, and right after the call t(k) is the merged value
\* of every (k, active locale) pair of the input.
C6_ExtendAlwaysRefreshes ==
    lastOp.op = "extendTranslations" =>
        /\ tSubscribed => (Len(lastOp.tn) >= 1 /\ lastOp.tn[Len(lastOp.tn)] = GetT)
        /\ \A k \in Keys :
            (locale \in Supported /\ lastOp.supplied[locale][k] # Undefined) =>
                Translated(k, <<>>) = lastOp.supplied[locale][k]

\* C7: a change of the active locale to a different supported locale
\* notifies the subscriber of t with a translator over the new locale's
\* sub-table, and no notification carries the data of a locale other than
\* the last supported locale written.
C7_LocaleChangeRetriggers ==
    [][/\ (locale' # locale /\ locale' \in Supported /\ tSubscribed) =>
            (Len(lastOp'.tn) >= 1 /\ \A i \in DOMAIN lastOp'.tn : lastOp'.tn[i] = MapOf(locale'))
       /\ \A i \in DOMAIN lastOp'.tn :
            IsObject(lastOp'.tn[i]) => lastOp'.tn[i] = MapOf(lastValid')]_vars

C7_Witness ==
    /\ lastOp.op \in {"setLocale", "locale.set"}
    /\ lastOp.arg = En
    /\ tSubscribed
    /\ lastOp.tn = <<MapOf(En)>>
    /\ locale = En

\* C8: every stored (key, locale) pair holds the value of its last
\* occurrence in initialTranslations followed by all extension inputs, and
\* a pair that never occurred is absent.
C8_LastWriteWins ==
    \A l \in Supported, k \in Keys : MapGet(translations[l], k) = lastWritten[l][k]

\* the input named Fr without (K2, Es), so it holds {k: {en: B, fr: A}}, and
\* the last (K1, En) it holds is A: {k: {en: A}} came after it
C8_Witness ==
    /\ lastOp.op = "extendTranslations"
    /\ lastOp.dropped = {Fr}
    /\ lastOp.supplied[Es][K2] = Undefined
    /\ lastOp.supplied[En][K1] = VA
    /\ MapGet(translations[En], K1) = VA

\* C9: extendTranslations changes only the (key, locale) pairs its input
\* names with a supported locale; every other pair keeps its value or its
\* absence, and no sub-table is added or removed.
C9_SparseExtensionFrame ==
    [][lastOp'.op = "extendTranslations" =>
          /\ DOMAIN translations' = DOMAIN translations
          /\ \A l \in Supported, k \in Keys :
                lastOp'.supplied[l][k] = Undefined =>
                    MapGet(translations'[l], k) = MapGet(translations[l], k)]_vars

C9_Witness ==
    /\ lastOp.op = "extendTranslations"
    /\ lastOp.supplied[En][K1] = VB
    /\ lastOp.supplied[Es][K1] = Undefined
    /\ lastOp.supplied[En][K2] = Undefined
    /\ MapGet(translations[Es], K1) = VA
    /\ MapGet(translations[En], K2) = VA

\* C10: a pair of the input whose locale is not supported is dropped and
\* creates no sub-table, while the pairs of the input that name supported
\* locales are stored.
C10_UnsupportedPairsDropped ==
    (lastOp.op \in {"createI18nStore", "extendTranslations"} /\ lastOp.dropped # {}) =>
        /\ DOMAIN translations = Supported
        /\ \A l \in Supported, k \in Keys :
            lastOp.supplied[l][k] # Undefined =>
                MapGet(translations[l], k) = lastOp.supplied[l][k]

C10_Witness ==
    /\ lastOp.op = "createI18nStore"
    /\ lastOp.dropped = {Fr}
    /\ lastOp.supplied[En][K1] = VB
    /\ MapGet(translations[En], K1) = VB
    /\ ~MapHas(translations, Fr)

\* C11: in every reachable state the locales that have a sub-table are
\* exactly the supported locales: each one has a sub-table from construction
\* on, empty when no data was supplied for it, and no operation adds or
\* removes one.
C11_SubTablePerSupportedLocale ==
    /\ DOMAIN translations = Supported
    /\ \A l \in Supported : DOMAIN translations[l] \subseteq Keys
    /\ \A l \in Supported :
        (\A k \in Keys : lastWritten[l][k] = Undefined) => translations[l] = EmptyMap

C11_Witness ==
    /\ lastOp.op = "extendTranslations"
    /\ lastOp.dropped = {Fr}
    /\ translations[Es] = EmptyMap
    /\ MapHas(translations[En], K1)

\* C12: extendTranslations with an empty list, or with a list whose entries
\* all have empty per-locale objects, changes no stored pair and reports zero
\* additions: no per-locale count is reported, and with devLogs the console
\* says that no new translations were added.
C12_EmptyExtensionIsNoOp ==
    [][(/\ lastOp'.op = "extendTranslations"
        /\ lastOp'.supplied = NoneSupplied
        /\ lastOp'.dropped = {})
       => /\ translations' = translations
          /\ \A i \in DOMAIN lastOp'.log : lastOp'.log[i].count = 0
          /\ devLogs =>
                \E i \in DOMAIN lastOp'.log :
                    lastOp'.log[i].msg = "No new translations were added."]_vars

C12_Witness ==
    /\ lastOp.op = "extendTranslations"
    /\ lastOp.supplied = NoneSupplied
    /\ lastOp.dropped = {}
    /\ devLogs
    /\ Len(lastOp.log) = 3
    /\ lastOp.log[2].msg = "No new translations were added."
    /\ MapGet(translations[En], K1) = VB
    /\ MapGet(translations[Es], K2) = VB

\* the part of a language tag before its first hyphen
BaseSubtag(tag) ==
    CHOOSE prefix \in {SubSeq(tag, 1, n) : n \in 0..Len(tag)} :
        /\ \A i \in DOMAIN prefix : prefix[i] # "-"
        /\ Len(prefix) = Len(tag) \/ tag[Len(prefix) + 1] = "-"

\* the store has just been created, in a browser, from the environment env
CreatedInBrowser == lastOp.op = "createI18nStore" /\ browser
ValidPersisted(e) == Truthy(e.storedLang) /\ e.storedLang \in Supported

\* the preference tags of an environment: the list where the navigator has
\* one, else its single language
PreferenceList(e) ==
    IF e.languages # Undefined THEN e.languages
    ELSE IF Truthy(e.language) THEN <<e.language>>
    ELSE <<>>

MatchesFully(tag) == tag \in Supported
MatchesByBase(tag) == BaseSubtag(tag) \in Supported
First(indices) == CHOOSE i \in indices : \A j \in indices : i <= j

\* persisted -> list full match -> list base match -> single full match ->
\* single base match -> default, each rank only where no higher one applies
StrictPriority(e) ==
    LET list == IF e.languages = Undefined THEN <<>> ELSE e.languages
        full == {i \in DOMAIN list : MatchesFully(list[i])}
        base == {i \in DOMAIN list : MatchesByBase(list[i])}
    IN IF ValidPersisted(e) THEN e.storedLang
       ELSE IF full # {} THEN list[First(full)]
       ELSE IF base # {} THEN BaseSubtag(list[First(base)])
       ELSE IF Truthy(e.language) /\ MatchesFully(e.language) THEN e.language
       ELSE IF Truthy(e.language) /\ MatchesByBase(e.language)
            THEN BaseSubtag(e.language)
       ELSE e.defaultLocale

\* C13 as stated: in a browser the initial locale follows the strict order
\* persisted value (if valid), full match in the list, base match in the
\* list, full match of the single preference, base match of the single
\* preference, defaultLocale.
C13_StrictPriority ==
    CreatedInBrowser => locale = StrictPriority(env)

\* persisted -> the first preference tag that matches, fully or else by its
\* base subtag -> default; the single preference stands in for a missing list
TagPriority(e) ==
    LET list == PreferenceList(e)
        matching == {i \in DOMAIN list : MatchesFully(list[i]) \/ MatchesByBase(list[i])}
    IN IF ValidPersisted(e) THEN e.storedLang
       ELSE IF matching = {} THEN e.defaultLocale
       ELSE IF MatchesFully(list[First(matching)]) THEN list[First(matching)]
       ELSE BaseSubtag(list[First(matching)])

\* C13, amended: in a browser the initial locale is the persisted value if
\* it is valid; else the result for the first preference tag that matches,
\* its full form tried before its base subtag, where the tags are the list
\* if the navigator has one and the single preference only if it has none;
\* else defaultLocale.
C13_TagPriority ==
    CreatedInBrowser => locale = TagPriority(env)

C13_Witness ==
    /\ CreatedInBrowser
    /\ env.storedLang = Null
    /\ env.languages # Undefined
    /\ env.languages = <<Fr>>
    /\ env.language = En
    /\ env.defaultLocale = Es
    /\ locale = Es

\* C14: with no valid persisted value the resolver walks the preference
\* tags in order and answers for the first tag that matches in either form,
\* the tag itself if it is supported and else its base subtag: the base
\* match of an earlier tag wins over the full match of a later one.
C14_FirstMatchingTagWins ==
    (CreatedInBrowser /\ ~ValidPersisted(env)) =>
        \A i \in DOMAIN PreferenceList(env) :
            LET tag == PreferenceList(env)[i]
            IN (/\ MatchesFully(tag) \/ MatchesByBase(tag)
                /\ \A j \in 1..(i - 1) :
                      /\ ~MatchesFully(PreferenceList(env)[j])
                      /\ ~MatchesByBase(PreferenceList(env)[j]))
               => locale = (IF MatchesFully(tag) THEN tag ELSE BaseSubtag(tag))

C14_Witness ==
    /\ CreatedInBrowser
    /\ env.storedLang = Fr
    /\ env.languages # Undefined
    /\ env.languages = <<EsMX, En>>
    /\ env.defaultLocale = En
    /\ locale = Es

\* C15: in a browser a persisted value that is non-empty and supported is
\* the initial locale whatever the navigator prefers; an absent, empty or
\* unsupported one is ignored, and the initial locale is the one the
\* navigator and defaultLocale alone give.
C15_PersistedFirst ==
    CreatedInBrowser =>
        IF ValidPersisted(env)
        THEN locale = env.storedLang
        ELSE locale = TagPriority([env EXCEPT !.storedLang = Null])

C15_Witness ==
    /\ CreatedInBrowser
    /\ lastOp.gi = <<Es>>
    /\ env.storedLang = Es
    /\ env.languages # Undefined
    /\ env.languages = <<En>>
    /\ env.language = En
    /\ env.defaultLocale = En
    /\ locale = Es

\* C16: without a window the initial locale is defaultLocale, whatever is
\* persisted and whatever the navigator prefers.
C16_HeadlessDefault ==
    (lastOp.op = "createI18nStore" /\ ~browser) => locale = env.defaultLocale

C16_Witness ==
    /\ lastOp.op = "createI18nStore"
    /\ ~browser
    /\ env.storedLang = Es
    /\ env.languages # Undefined
    /\ env.languages = <<EsMX, En>>
    /\ env.language = EsMX
    /\ env.defaultLocale = Es
    /\ locale = Es

\* the step writes lang to the locale cell: locale.set(lang), or
\* setLocale(lang) with a supported lang
WritesLocale(op) ==
    \/ op.op = "locale.set"
    \/ op.op = "setLocale" /\ op.arg \in Supported

\* C17 as stated: in a browser every write to the locale cell calls
\* localStorage.setItem with the written value: the initial value at
\* construction, unsupported codes, writes that leave the view unchanged and
\* writes of the value the cell already holds.
C17_EveryWritePersisted ==
    browser =>
        /\ lastOp.op = "createI18nStore" => lastOp.si = <<locale>>
        /\ WritesLocale(lastOp) => lastOp.si = <<lastOp.arg>>

\* C17, amended: in a browser the initial value at construction and every
\* write that changes the value of the locale cell call localStorage.setItem
\* once with the written value, for unsupported codes and for writes that
\* leave the view unchanged too; a write of the value the cell already holds
\* calls nothing and leaves localStorage as it was.
C17_ChangingWritesPersisted ==
    /\ (browser /\ lastOp.op = "createI18nStore") =>
            lastOp.si = <<locale>> /\ localStorage = locale
    /\ [][(browser /\ WritesLocale(lastOp')) =>
            IF lastOp'.arg # locale
            THEN lastOp'.si = <<lastOp'.arg>> /\ localStorage' = lastOp'.arg
            ELSE lastOp'.si = <<>> /\ localStorage' = localStorage]_vars

C17_Witness ==
    /\ browser
    /\ lastOp.op = "locale.set"
    /\ lastOp.arg = Fr
    /\ lastOp.si = <<Fr>>
    /\ localStorage = Fr
    /\ _t = MapOf(En)

\* C18: without a window no operation reads localStorage or writes to it:
\* construction asks for no item, no operation calls setItem, and what
\* localStorage holds never changes.
C18_HeadlessNoPersistence ==
    /\ [](~browser => lastOp.gi = <<>> /\ lastOp.si = <<>>)
    /\ [][~browser => localStorage' = localStorage]_vars

C18_Witness ==
    /\ ~browser
    /\ lastOp.op = "locale.set"
    /\ lastOp.arg = Fr
    /\ locale = Fr
    /\ lastOp.si = <<>>
    /\ localStorage = Es

\* C19: locale.set with an unsupported code makes that code the reported
\* locale, and the persisted value in a browser, while the translator
\* answers every key and replacements exactly as before the write.
C19_InvalidWriteKeepsTranslator ==
    [][(lastOp'.op = "locale.set" /\ lastOp'.arg \notin Supported) =>
        /\ locale' = lastOp'.arg
        /\ browser => localStorage' = lastOp'.arg
        /\ lastOp'.tn = <<>>
        /\ \A k \in Keys, r \in Replacements :
                Translated(k, r)' = Translated(k, r)]_vars

C19_Witness ==
    /\ browser
    /\ lastOp.op = "locale.set"
    /\ lastOp.arg = Fr
    /\ locale = Fr
    /\ localStorage = Fr
    /\ lastValid = Es
    /\ tSubscribed
    /\ Translated(K1, <<>>) = VA
    /\ Translated(K2, <<>>) = VB

\* the step ends in the state and with the notifications of the run m
EndsAs(m) ==
    /\ locale' = m.locale
    /\ _t' = m.view
    /\ tValue' = m.tval
    /\ localStorage' = m.storage
    /\ lastOp'.ln = m.ln
    /\ lastOp'.tn = m.tn
    /\ lastOp'.si = m.si
    /\ lastOp'.log = <<>>
    /\ translations' = translations

\* C20: for a supported L, locale.set(L) and setLocale(L) are the same
\* operation: from the same state each ends with the locale, the view, the
\* persisted value and the subscriber notifications the other would give.
C20_DirectWriteIsSetLocale ==
    [][\A L \in Supported :
        /\ (lastOp'.op = "locale.set" /\ lastOp'.arg = L) =>
                EndsAs(setLocaleRun(Now, L, translations, Ctx))
        /\ (lastOp'.op = "setLocale" /\ lastOp'.arg = L) =>
                EndsAs(runQueue(localeSet(Now, L, Ctx), 1, translations, Ctx))]_vars

C20_Witness ==
    /\ browser
    /\ lastOp.op = "locale.set"
    /\ lastOp.arg = Es
    /\ lastValid = Es
    /\ locale = Es
    /\ _t = MapOf(Es)
    /\ localStorage = Es
    /\ localeSubscribed
    /\ tSubscribed
    /\ lastOp.ln = <<Es>>
    /\ lastOp.tn = <<MapOf(Es)>>
    /\ lastOp.si = <<Es>>

\* the text t looks up for key: the stored text of the view, else the key
LookedUp(key) ==
    LET found == MapGet(translations[LangOf(GetT)], key)
    IN IF found = Undefined THEN key ELSE found

\* the tokens of a text: <<i, n>> where a "{" at i is closed by a "}" at n
\* with a non-empty name without braces between them
TokenSpans(text) ==
    {span \in (1..Len(text)) \X (1..Len(text)) :
        /\ text[span[1]] = "{"
        /\ text[span[2]] = "}"
        /\ span[2] > span[1] + 1
        /\ \A j \in (span[1] + 1)..(span[2] - 1) : text[j] \notin {"{", "}"}}

TokenNames(text) ==
    {SubSeq(text, span[1] + 1, span[2] - 1) : span \in TokenSpans(text)}

\* text from position p on, every token whose name has a value in values
\* that is neither undefined nor null replaced by the string form of the
\* value, everything else as it is
RECURSIVE Substituted(_, _, _)
Substituted(text, p, values) ==
    IF p > Len(text) THEN <<>>
    ELSE LET ends == {n \in 1..Len(text) : <<p, n>> \in TokenSpans(text)}
             n == CHOOSE e \in ends : TRUE
             value == values[SubSeq(text, p + 1, n - 1)]
         IN IF ends = {} THEN <<text[p]>> \o Substituted(text, p + 1, values)
            ELSE (IF value # Undefined /\ value # Null
                  THEN String(value)
                  ELSE SubSeq(text, p, n))
                 \o Substituted(text, n + 1, values)

\* the entries of the replacements object, by token name
Entry(text, replacements) ==
    [name \in TokenNames(text) |->
        IF name \in DOMAIN replacements THEN replacements[name] ELSE Undefined]

\* t was called with replacements on a store whose view is a sub-table
CalledWithReplacements ==
    lastOp.op = "t" /\ Len(lastOp.rest) > 0 /\ IsObject(GetT)

\* C21: with replacements given, t returns the looked-up text with every
\* token {name} replaced by the string form of the entry of replacements
\* for name exactly when that entry is neither absent, null nor undefined
\* (0 gives "0"), all other tokens and all other text unchanged.
C21_SubstitutesEntries ==
    CalledWithReplacements =>
        lastOp.result =
            Substituted(LookedUp(lastOp.arg), 1,
                        Entry(LookedUp(lastOp.arg), lastOp.rest[1]))

\* what replacements[name] gives for the tokens of a text
Looked(text, replacements) ==
    [name \in TokenNames(text) |-> PropGet(replacements, name)]

\* C28: substitution is a single pass: the value put in for a token is
\* inserted as it is, and a token {name2} inside it is never replaced by
\* replacements[name2].
C28_SinglePass ==
    CalledWithReplacements =>
        lastOp.result =
            Substituted(LookedUp(lastOp.arg), 1,
                        Looked(LookedUp(lastOp.arg), lastOp.rest[1]))

C28_Witness ==
    /\ CalledWithReplacements
    /\ lastOp.arg = K1
    /\ LookedUp(K1) = <<"{", "n", "}", "n">>
    /\ PropGet(lastOp.rest[1], N) = <<"{", "m", "}">>
    /\ PropGet(lastOp.rest[1], M) = <<"x">>
    /\ lastOp.result = <<"{", "m", "}", "n">>

\* C25: construction validates defaultLocale: a config whose defaultLocale
\* is outside supportedLocales is rejected, so that no store exists whose
\* initial locale has no sub-table.
C25_DefaultLocaleValidated ==
    lastOp.op = "createI18nStore" =>
        /\ env.defaultLocale \in Supported
        /\ MapHas(translations, locale)
        /\ _t = MapOf(locale)

\* C26: with defaultLocale among supportedLocales and the locale changed
\* only through setLocale, the active locale is a supported locale in every
\* reachable state, with and without a window, whatever is persisted and
\* whatever the navigator prefers.
C26_LocaleStaysSupported ==
    env.defaultLocale \in Supported =>
        /\ locale \in Supported
        /\ _t = MapOf(locale)

C26_Witness ==
    /\ env.defaultLocale = En
    /\ env.storedLang = Fr
    /\ env.languages # Undefined
    /\ env.languages = <<EsMX, Fr>>
    /\ browser
    /\ lastOp.op = "setLocale"
    /\ lastOp.arg = Fr
    /\ locale = Es
    /\ localStorage = Es

\* C27: the single preferred language is consulted only when the navigator
\* has no list, and is then matched fully and else by its base subtag; with
\* a list, be it empty or without a matching tag, the single value is not
\* consulted and the result falls through to defaultLocale.
C27_SingleOnlyWithoutList ==
    (CreatedInBrowser /\ ~ValidPersisted(env)) =>
        IF env.languages # Undefined
        THEN locale = TagPriority([env EXCEPT !.language = Undefined])
        ELSE IF ~Truthy(env.language) THEN locale = env.defaultLocale
        ELSE IF MatchesFully(env.language) THEN locale = env.language
        ELSE IF MatchesByBase(env.language) THEN locale = BaseSubtag(env.language)
        ELSE locale = env.defaultLocale

C27_Witness ==
    /\ CreatedInBrowser
    /\ env.storedLang = EmptyString
    /\ env.languages # Undefined
    /\ env.languages = <<>>
    /\ env.language = EsMX
    /\ env.defaultLocale = En
    /\ locale = En

----------------------------------------------------------------------------
(* Calls made from inside a subscriber, and the frame of each operation *)

\* what the subscriber of locale saw each time a setLocale it made from
\* inside its callback had returned
Observed == Range(lastOp.seen)

\* C24: when a locale write returns to its caller, the view update and the
\* persistence write it caused have already happened, also when the call is
\* made from inside a subscriber callback: what the callback sees right
\* after its setLocale(lang) changed the locale is the view of lang and, in
\* a browser, lang persisted.
C24_NothingDeferred ==
    \A o \in Observed :
        (o.arg \in Supported /\ o.before # o.arg)
            => /\ o.locale = o.arg
               /\ o.view = getSubTable(translations, o.arg)
               /\ browser => o.storage = o.arg

\* the context of the run that differs only in devLogs
Twin == [Ctx EXCEPT !.devLogs = ~devLogs]

\* the step ends with the functional state of the run m
SameOutcome(m) ==
    /\ locale' = m.locale
    /\ _t' = m.view
    /\ tValue' = m.tval
    /\ localStorage' = m.storage

\* C22: diagnostics are advisory only: the store created with the other
\* value of devLogs is the same but for its console, and every step ends
\* with the locale, table, view and persisted value, and every t call with
\* the string, that the same step gives the run with the other devLogs.
C22_DiagnosticsAdvisory ==
    /\ LET s == created(browser, ~devLogs, Null, NoNavigator, En, sampleTranslations)
       IN /\ translations = s.translations
          /\ locale = s.m.locale
          /\ _t = s.m.view
          /\ localStorage = s.m.storage
    /\ [][ /\ \A lang \in LangArgs :
                SetLocale(lang) => SameOutcome(setLocaleRun(Now, lang, translations, Twin))
           /\ \A lang \in AllLocales :
                LocaleSet(lang)
                    => SameOutcome(settle(Now, localeSet(Now, lang, Twin), translations, Twin))
           /\ \A newTranslations \in CallArrays :
                ExtendTranslations(newTranslations)
                    => SameOutcome(refreshRun(Now, translations', Twin))
           /\ \A reaction \in Reactions :
                SubscribeLocaleWith(reaction)
                    => SameOutcome(localeSubscriber(Now, locale, translations,
                                                    Attached(Twin, reaction)))
           /\ \A key \in SomeKeys, replacements \in SomeReplacements :
                CallT(key, replacements)
                    => lastOp'.result
                         = translate(Twin, translations, GetT, key, replacements).result
         ]_vars

\* C22 witness: with devLogs on, setLocale('fr') has been rejected with a
\* warning, and the locale, view and persisted value are as before.
C22_Witness ==
    /\ devLogs
    /\ lastOp.op = "setLocale"
    /\ lastOp.arg = Fr
    /\ lastOp.log # <<>>
    /\ locale = Es
    /\ _t = MapOf(Es)

C29_ExtendKeepsLocale ==
    [][ lastOp'.op = "extendTranslations"
            => /\ locale' = locale
               /\ localStorage' = localStorage
               /\ lastOp'.ln = <<>>
               /\ lastOp'.si = <<>>
               /\ lastOp'.seen = <<>>
      ]_vars

\* C29 witness: with a subscriber of locale attached and 'es' persisted, an
\* extension has added a pair for the active locale.
C29_Witness ==
    /\ lastOp.op = "extendTranslations"
    /\ lastOp.supplied[Es][K1] # Undefined
    /\ localeSubscribed
    /\ locale = Es
    /\ localStorage = Es

\* C30: the table is changed by extendTranslations only: setLocale, raw
\* writes of locale, subscribing, unsubscribing and calling t leave it as
\* it is.
C30_OnlyExtendMutatesTable ==
    [][ lastOp'.op # "extendTranslations" => translations' = translations ]_vars

\* C30 witness: the table holds a pair written by an extension, and the
\* last operation was a switch to 'es' that left it there.
C30_Witness ==
    /\ lastOp.op = "setLocale"
    /\ lastOp.arg = Es
    /\ locale = Es
    /\ translations # makeTranslation(sampleTranslations)

----------------------------------------------------------------------------
(* What every completed operation leaves behind *)

\* C31: the view is never absent: it is the sub-table of the last supported
\* locale that was active, also after a raw write of an unsupported code
\* followed by extendTranslations.
C31_ViewNeverAbsent ==
    /\ IsObject(_t)
    /\ _t = MapOf(lastValid)

\* C32: in a browser, after construction and after every completed
\* operation, localStorage holds the value of the locale store.
C32_PersistedIsLocale ==
    browser => localStorage = locale

\* C32 witness: in a browser with a passive subscriber attached, a raw write
\* of 'fr' has completed after setLocale had persisted another value.
C32_Witness ==
    /\ browser
    /\ lastOp.op = "locale.set"
    /\ lastOp.arg = Fr
    /\ lastOp.si = <<Fr>>
    /\ locale = Fr

\* the pair (key, lang) is in the table
Stored(tr, lang, key) == MapHas(tr, lang) /\ MapHas(MapGet(tr, lang), key)

\* C34: the table only grows: a pair that is in the table stays in it, so
\* whenever a supported locale is active, t answers every key that was ever
\* stored for it with the stored string, not with the fallback.
C34_TableOnlyGrows ==
    /\ [](\A key \in Keys :
            (locale \in Supported /\ Stored(translations, locale, key))
                => Translated(key, <<>>) = MapGet(MapGet(translations, locale), key))
    /\ [][ \A lang \in Supported, key \in Keys :
              Stored(translations, lang, key) => Stored(translations', lang, key) ]_vars

\* C34 witness: an extension has added the pair (K1, 'en') and held nothing
\* for (K2, 'en'), which was stored at construction; 'en' is active with a
\* subscriber of t attached, and t(K2) still answers with the stored string.
C34_Witness ==
    /\ lastOp.op = "extendTranslations"
    /\ lastOp.supplied[En][K1] = VA
    /\ lastOp.supplied[En][K2] = Undefined
    /\ locale = En
    /\ tSubscribed
    /\ Stored(translations, En, K2)
    /\ Translated(K2, <<>>) = VA

\* C36: setLocale(L) with L the active locale is a no-op: no subscriber of
\* locale or of t is called, the view is not replaced, nothing is written
\* to localStorage.
C36_SameLocaleIsNoOp ==
    [][ \A lang \in LangArgs :
          (SetLocale(lang) /\ lang = locale)
              => /\ UNCHANGED <<locale, _t, tValue, localStorage, translations>>
                 /\ lastOp'.ln = <<>>
                 /\ lastOp'.tn = <<>>
                 /\ lastOp'.si = <<>>
                 /\ lastOp'.seen = <<>> ]_vars

\* C36 witness: with subscribers of locale and of t attached in a browser,
\* setLocale('es') has returned while 'es' was active, and nobody was called.
C36_Witness ==
    /\ lastOp.op = "setLocale"
    /\ lastOp.arg = Es
    /\ locale = Es
    /\ browser
    /\ localeSubscribed
    /\ tSubscribed
    /\ lastOp.ln = <<>>
    /\ lastOp.tn = <<>>

\* C33: the persistence round trip in a browser: a store created over the
\* same localStorage after setLocale(L), L supported, starts with L whatever
\* navigator prefers; created after a raw write of an unsupported code it
\* starts with what the preferences and defaultLocale give without a
\* persisted value.
C33_RoundTrip ==
    [][ (lastOp'.op = "createI18nStore" /\ browser)
            => /\ (lastOp.op = "setLocale" /\ lastOp.arg \in Supported)
                    => locale' = lastOp.arg
               /\ (lastOp.op = "locale.set" /\ lastOp.arg \notin Supported)
                    => locale' = TagPriority([env EXCEPT !.storedLang = Null])
      ]_vars

\* C33 witness: navigator prefers 'es-MX' and defaultLocale is 'es'; the
\* store was created anew over a localStorage in which an earlier store had
\* persisted 'en', and it started with 'en'.
C33_Witness ==
    /\ browser
    /\ lastOp.op = "createI18nStore"
    /\ lastOp.gi = <<En>>
    /\ env.storedLang = En
    /\ env.languages # Undefined
    /\ env.languages = <<EsMX>>
    /\ env.defaultLocale = Es
    /\ locale = En

\* C35: extending is building from the concatenated input: after any
\* extensions, in one call or in several, the table is the table
\* makeTranslation gives for initialTranslations followed by all the entries
\* of the extensions in order; and the same extendTranslations call made
\* again leaves the table as it is.
C35_ExtendIsBuild ==
    /\ [](translations = makeTranslation(lastOp.rest))
    /\ [][ (/\ lastOp.op = "extendTranslations"
            /\ lastOp'.op = "extendTranslations"
            /\ lastOp'.arg = lastOp.arg)
                => translations' = translations ]_vars

\* C35 witness: initialTranslations gave (K1, 'en') one string, and two
\* extensions have given it another and then the first again: the table
\* holds the string of the last one.
C35_Witness ==
    /\ lastOp.op = "extendTranslations"
    /\ lastOp.rest = <<Obj1(K1, Obj1(En, VA)), Obj1(K1, Obj2(En, VB, Fr, VA)),
                       Obj1(K1, Obj1(En, VA))>>
    /\ lastOp.arg = <<Obj1(K1, Obj1(En, VA))>>
    /\ translations[En][K1] = VA

\* C37: when the outside subscriber of locale is called with a supported
\* locale L, the store's own effects have run: L is persisted, the view is
\* L's sub-table, and get(t), read inside the callback, translates with
\* L's sub-table, also while t has other subscribers.
C37_OwnEffectsFirst ==
    \A o \in Observed :
        (o.call = "get(t)" /\ o.value \in Supported)
            => /\ browser => o.storage = o.value
               /\ o.view = getSubTable(translations, o.value)
               /\ o.t = getSubTable(translations, o.value)

\* the last element of a non-empty sequence is v
EndsWith(seq, v) == seq # <<>> /\ seq[Len(seq)] = v

\* C38: re-entrant writes settle: if the subscriber of locale, called with
\* L1, has called setLocale(L2), both supported, then when the outermost
\* call has returned the locale, the view and the persisted value are
\* L2's, and the last value the subscribers of locale and of t were called
\* with is L2, resp. the translator over L2's sub-table.
C38_ReentrantSettles ==
    \A o \in Observed :
        (/\ o.call = "setLocale"
         /\ o.value \in Supported
         /\ o.arg \in Supported
         /\ o.before # o.arg)
            => /\ locale = o.arg
               /\ _t = getSubTable(translations, o.arg)
               /\ browser => localStorage = o.arg
               /\ EndsWith(lastOp.ln, o.arg)
               /\ tSubscribed => (EndsWith(lastOp.tn, MapOf(o.arg)) /\ tValue = MapOf(o.arg))

\* C38 witness: in a browser with a subscriber of t attached, setLocale('en')
\* was called while the subscriber of locale answers every value with
\* setLocale('es'): it was called with 'en', then with 'es'.
C38_Witness ==
    /\ browser
    /\ tSubscribed
    /\ lastOp.op = "setLocale"
    /\ lastOp.arg = En
    /\ onLocale = [call |-> "setLocale", arg |-> Es]
    /\ lastOp.ln = <<En, Es>>
    /\ locale = Es

\* C39: a translator taken from t keeps answering for the locale that was
\* active when it was taken: no later operation changes what it closes
\* over, and called after locale changes and extensions it returns what the
\* table holds now for the key under that locale, or the key.
C39_HeldTranslatorAliases ==
    /\ [](\A key \in SomeKeys :
            (lastOp.op = "translate" /\ lastOp.arg = key /\ IsObject(held[1]))
                => lastOp.result
                     = IF Stored(translations, LangOf(held[1]), key)
                       THEN MapGet(MapGet(translations, LangOf(held[1])), key)
                       ELSE key)
    /\ [][ (held # <<>> /\ lastOp'.op # "get(t)") => held' = held ]_vars

\* C39 witness: a translator taken while 'en' was active is called while
\* 'es' is active; for K1 it returns the string an extension stored for
\* (K1, 'en'), a pair the table was not created with, while the store's own
\* t(K1) answers with another string.
C39_Witness ==
    /\ lastOp.op = "translate"
    /\ lastOp.arg = K1
    /\ held = <<MapOf(En)>>
    /\ locale = Es
    /\ lastOp.result = VB
    /\ Translated(K1, <<>>) = VA

====
